---- MODULE Spec2Model ----
(***************************************************************************)
(* Model of the resumable batch collection pipeline of ig-scraper.         *)
(*                                                                         *)
(* Spec models the two Apify batch loops:                                  *)
(*   apify_to_report.cmd_scrape  (profiles, resumable, try/except)         *)
(*   apify_scrape.cmd_comments   (comments, batch_size 50, no resume)      *)
(* One process is alive at a time; it can be killed at any step and a new  *)
(* invocation started on the files the previous one left behind.           *)
(* SpecResume is the resume step of cmd_scrape on arbitrary small stores.  *)
(* SpecFollowers models ig_api_scraper: api_get and cmd_followers.         *)
(* SpecEnrich models export_scraper: api_get and cmd_enrich.               *)
(* SpecCollect joins SpecFollowers and SpecEnrich with cmd_enrich of       *)
(* ig_api_scraper and cmd_followers and cmd_enrich of scrape_followers.    *)
(* SpecSource models the work-unit sources: load_usernames and cmd_parse.  *)
(* SpecNormalize models the normalizers: apify_scrape.cmd_analyze and      *)
(* apify_to_report.convert_apify_to_csv, on raw records field by field.    *)
(* SpecStores lets apify_to_report convert run between invocations of      *)
(* export_scraper enrich; SpecRuns joins cmd_scrape and the enrichment     *)
(* loops.                                                                  *)
(*                                                                         *)
(* A work unit is an integer.  A raw record is [username, of]: `username`  *)
(* is the value of the record's "username" field (0: absent or empty) and  *)
(* `of` is the requested unit the backend produced the record for (not a   *)
(* field the code reads; it lets the properties speak about provenance).   *)
(***************************************************************************)
EXTENDS Integers, Sequences, FiniteSets, TLC

MaxLen == 3
MaxBatch == 2
MaxRuns == 2
ResumeLen == 4
MaxFollowers == 2
MaxLines == 3

\* batch_size of cmd_comments
COMMENT_BATCH_SIZE == 50

\* max_retries of ig_api_scraper.api_get
ig_max_retries == 3
\* export_scraper.api_get: max_retries: int = 8
export_max_retries == 8
\* scrape_followers.cmd_followers: max_retries = 5, retry_delay = 60,
\* save_interval = 100
sf_max_retries == 5
retry_delay == 60
save_interval == 100

Min(a, b) == IF a < b THEN a ELSE b

\* Usernames a usernames file or a followers export can hold.  Units 1 and 2
\* are plain profiles; 3 is another spelling of profile 1 (the backend
\* reports the account's own username); 4 is a profile for which the backend
\* returns an item without a username (an error item).
Usernames == 1..4

\* The "username" field of the item the profile actor returns for unit u.
Username(u) == CASE u = 3 -> 1
                 [] u = 4 -> 0
                 [] OTHER -> u

\* Dataset items of a finished run over `units`, in request order.
RECURSIVE Items(_)
Items(units) ==
  IF units = <<>> THEN <<>>
  ELSE <<[username |-> Username(Head(units)), of |-> Head(units)]>>
         \o Items(Tail(units))

\* Terminal run states (apify_scrape.wait_for_run).
TerminalStatus == {"SUCCEEDED", "FAILED", "ABORTED", "TIMED-OUT"}

\* Dataset items of a finished comment run over the post URLs `urls` (one
\* comment per post; a comment has no "username" field).
Comments(urls) == [k \in 1..Len(urls) |-> [username |-> 0, of |-> urls[k]]]

\* What the default dataset of a run can hold when the run ends with `st`,
\* `items` being its complete result: everything when it succeeded, a prefix
\* (nothing, all but the last item, everything) otherwise.
Dataset(items, st) ==
  IF st = "SUCCEEDED" THEN {items}
  ELSE {SubSeq(items, 1, n) :
          n \in {0, Len(items) - 1, Len(items)} \cap (0..Len(items))}

RECURSIVE SeqsUpTo(_, _)
SeqsUpTo(S, n) ==
  IF n = 0 THEN {<<>>}
  ELSE LET shorter == SeqsUpTo(S, n - 1)
       IN  shorter \cup {Append(s, x) : s \in {t \in shorter : Len(t) = n - 1}, x \in S}

\* A file: absent, or present with JSON content; `valid` is FALSE while the
\* content is not a complete JSON document (opened for writing, not dumped).
NoFile == [exists |-> FALSE, valid |-> FALSE, data |-> <<>>]
FileOf(data) == [exists |-> TRUE, valid |-> TRUE, data |-> data]
Truncated == [exists |-> TRUE, valid |-> FALSE, data |-> <<>>]

VARIABLES
  cmd,            \* "scrape" | "comments": the command every invocation runs
  batch_size,     \* args.batch_size / batch_size = 50
  all_usernames,  \* load_usernames(): the work-unit list of cmd_scrape
  post_urls,      \* cmd_comments: URLs extracted from the posts file
  raw_file,       \* data/<target>_apify_profiles_raw.json
  comments_file,  \* data/<target>_comments_apify.json
  pc,             \* position of the running process
  remaining,      \* cmd_scrape local
  existing,       \* cmd_scrape local `existing` / cmd_comments `all_comments`
  i,              \* loop index of range(0, len, batch_size)
  batch,          \* the batch submitted last
  runs,           \* invocations started so far
  exit,           \* how the last invocation ended
  store0,         \* history: the store file when the invocation started
  durable,        \* history: content of the last completed checkpoint
  submitted,      \* history: batches submitted by this invocation
  fetched,        \* history: records this invocation took from datasets
  failed,         \* history: number of the first batch whose run did not
                  \* succeed in this invocation (0: none)
  followers_file, \* data/<target>_followers_api.json (ig_api_scraper)
  collected,      \* cmd_followers local: the dict, as its keys in order
  max_id,         \* cmd_followers local: the cursor (0: "")
  page,           \* cmd_followers local
  attempt,        \* api_get local
  caller,         \* who called api_get: "resolve" | "page"
  api_result,     \* what api_get returned: "json" | "empty" | "" (nothing yet)
  waits,          \* history: the sleeps of the api_get call in progress
  requested,      \* history: cursors of the pages this invocation asked for
  exhausted,      \* history: an api_get call of this invocation used up its
                  \* attempts on 429 responses
  followers,      \* cmd_enrich: the handles of the parsed followers file
  profiles_file,  \* cmd_enrich: data/<target>_profiles_export.csv, a row is
                  \* its handle
  processed,      \* cmd_enrich local
  errors,         \* cmd_enrich local
  answers,        \* history: "429" | "error" for every wait of the api_get
                  \* call in progress
  asked,          \* history: the units this invocation asked the backend for
  gap,            \* history: the sleeps of the loop since the last unit request
  prev_gap,       \* history: the sleeps between the last two unit requests
  unauthorized,   \* history: a request of this invocation was answered 401
  outcomes,       \* history: how each unit of `asked` ended: "row" |
                  \* "notfound" | "network" | "ratelimit"
  sf_file,        \* scrape_followers: data/<target>_followers.json
  sf_collected,   \* scrape_followers.cmd_followers local `collected`, a set
  iter_pos,       \* followers the iterator of get_followers() has yielded
  starts,         \* history: calls of get_followers() in this invocation
  lines,          \* the lines of the usernames file (load_usernames) or the
                  \* handles of the export's follower files (parse_export)
  raw_rows,       \* the raw records a normalizer is given
  table,          \* the rows the normalizer made of them
  persisted       \* history: the rows cmd_enrich has appended to its store,
                  \* over all invocations

vars == <<cmd, batch_size, all_usernames, post_urls, raw_file, comments_file,
          pc, remaining, existing, i, batch, runs, exit, store0, durable,
          submitted, fetched, failed, followers_file, collected,
          max_id, page, attempt, caller, api_result, waits, requested,
          exhausted, followers, profiles_file, processed, errors, answers,
          asked, gap, prev_gap, unauthorized, outcomes, sf_file,
          sf_collected, iter_pos, starts, lines, raw_rows, table, persisted>>

\* The input and the output of the normalizers.
normVars == <<raw_rows, table>>

\* The state of scrape_followers.cmd_followers.
sfVars == <<sf_file, sf_collected, iter_pos, starts>>

\* The state of the enrichment loop, which the batch loops and
\* ig_api_scraper.cmd_followers leave alone.
enrichVars == <<followers, profiles_file, processed, errors, answers, asked,
                gap, prev_gap, unauthorized, outcomes>>

\* The state of ig_api_scraper.cmd_followers, which the batch loops leave alone.
apiVars == <<followers_file, collected, max_id, page, attempt, caller,
             api_result, waits, requested, exhausted>>

\* What no step of a batch loop changes.
config == <<cmd, batch_size, all_usernames, post_urls, apiVars, enrichVars,
            sfVars, lines, normVars, persisted>>

\* The state of the batch loops, which cmd_followers leaves alone.
batchVars == <<cmd, batch_size, all_usernames, post_urls, raw_file,
               comments_file, remaining, existing, i, batch, store0, durable,
               submitted, fetched, failed, enrichVars, sfVars, lines,
               normVars, persisted>>

\* batchVars without the history of 401 answers.
batchVars401 == <<cmd, batch_size, all_usernames, post_urls, raw_file,
                  comments_file, remaining, existing, i, batch, store0,
                  durable, submitted, fetched, failed, followers,
                  profiles_file, processed, errors, answers, asked, gap,
                  prev_gap, outcomes, sfVars, lines, normVars, persisted>>
history == <<store0, durable, submitted, fetched, failed>>

\* Lengths of post-URL lists tried for cmd_comments.
PostCounts == {0, 1, COMMENT_BATCH_SIZE, COMMENT_BATCH_SIZE + 1,
               2 * COMMENT_BATCH_SIZE + 1, 137}

\* load_already_scraped: usernames of the records that have a non-empty one.
load_already_scraped(file) ==
  IF ~file.exists THEN {}
  ELSE {file.data[k].username : k \in {j \in DOMAIN file.data : file.data[j].username # 0}}

\* Mutant of Remaining: the membership test is inverted.
RECURSIVE Remaining_inverted(_, _)
Remaining_inverted(units, done) ==
  IF units = <<>> THEN <<>>
  ELSE IF Head(units) \notin done THEN Remaining_inverted(Tail(units), done)
       ELSE <<Head(units)>> \o Remaining_inverted(Tail(units), done)

\* remaining = [u for u in all_usernames if u not in already_scraped]
RECURSIVE Remaining(_, _)
Remaining(units, done) ==
  IF units = <<>> THEN <<>>
  ELSE IF Head(units) \in done THEN Remaining(Tail(units), done)
       ELSE <<Head(units)>> \o Remaining(Tail(units), done)

\* Mutant of Batch: the slice stops one element early.
Batch_short(list, from, size) ==
  SubSeq(list, from + 1, Min(from + size, Len(list)) - 1)

\* remaining[i : i + batch_size]  (Python slice: the end is clamped)
Batch(list, from, size) == SubSeq(list, from + 1, Min(from + size, Len(list)))

\* total_batches = (len(remaining) + batch_size - 1) // batch_size
total_batches(n, size) == (n + size - 1) \div size

Idle == pc \in {"idle", "done"}

SfInit ==
  /\ sf_file = NoFile
  /\ sf_collected = {}
  /\ iter_pos = 0
  /\ starts = 0

EnrichInit ==
  /\ SfInit
  /\ lines = <<>>
  /\ raw_rows = <<>>
  /\ table = <<>>
  /\ persisted = {}
  /\ followers = <<>>
  /\ profiles_file = NoFile
  /\ processed = 0
  /\ errors = 0
  /\ answers = <<>>
  /\ asked = <<>>
  /\ gap = <<>>
  /\ prev_gap = <<>>
  /\ unauthorized = FALSE
  /\ outcomes = <<>>

ApiInit ==
  /\ EnrichInit
  /\ followers_file = NoFile
  /\ collected = <<>>
  /\ max_id = 0
  /\ page = 0
  /\ attempt = 0
  /\ caller = ""
  /\ api_result = ""
  /\ waits = <<>>
  /\ requested = <<>>
  /\ exhausted = FALSE

\* The process is gone: its locals no longer exist.
ProcessEnds ==
  /\ remaining' = <<>>
  /\ existing' = <<>>
  /\ i' = 0
  /\ batch' = <<>>

Init ==
  /\ cmd \in {"scrape", "comments"}
  /\ IF cmd = "scrape"
       THEN /\ batch_size \in 1..MaxBatch
            /\ all_usernames \in SeqsUpTo(Usernames, MaxLen)
            /\ post_urls = <<>>
       ELSE /\ batch_size = COMMENT_BATCH_SIZE
            /\ all_usernames = <<>>
            /\ post_urls \in {[k \in 1..n |-> k] : n \in PostCounts}
  /\ raw_file = NoFile
  /\ comments_file = NoFile
  /\ pc = "idle"
  /\ remaining = <<>>
  /\ existing = <<>>
  /\ i = 0
  /\ batch = <<>>
  /\ runs = 0
  /\ exit = "none"
  /\ store0 = NoFile
  /\ durable = <<>>
  /\ submitted = <<>>
  /\ fetched = <<>>
  /\ failed = 0
  /\ ApiInit

----------------------------------------------------------------------------
(* apify_to_report.cmd_scrape *)

\* Lines 75-98: load the work list, the already-scraped set and the existing
\* records.  json.load of a store left half-written raises and the process
\* dies with the traceback.
ScrapeStart ==
  /\ cmd = "scrape" /\ Idle /\ runs < MaxRuns
  /\ runs' = runs + 1
  /\ store0' = raw_file
  /\ durable' = raw_file.data
  /\ submitted' = <<>> /\ fetched' = <<>> /\ failed' = 0
  /\ i' = 0 /\ batch' = <<>>
  /\ IF raw_file.exists /\ ~raw_file.valid
       THEN /\ pc' = "done" /\ exit' = "crashed"
            /\ remaining' = <<>> /\ existing' = <<>>
       ELSE /\ remaining' = Remaining(all_usernames, load_already_scraped(raw_file))
            /\ existing' = IF remaining' # <<>> /\ raw_file.exists
                             THEN raw_file.data ELSE <<>>
            /\ pc' = IF remaining' = <<>> THEN "convert" ELSE "loop"
            /\ exit' = "none"
  /\ UNCHANGED <<config, raw_file, comments_file>>

\* Lines 102-114: the next batch is cut and handed to the actor.
ScrapeSubmit ==
  /\ cmd = "scrape" /\ pc = "loop" /\ i < Len(remaining)
  /\ batch' = Batch(remaining, i, batch_size)
  /\ submitted' = Append(submitted, batch')
  /\ pc' = "call"
  /\ UNCHANGED <<config, raw_file, comments_file, remaining, existing, i,
                 runs, exit, store0, durable, fetched, failed>>

\* Line 102: range() is exhausted.
ScrapeLoopEnd ==
  /\ cmd = "scrape" /\ pc = "loop" /\ i >= Len(remaining)
  /\ pc' = "convert"
  /\ UNCHANGED <<config, raw_file, comments_file, remaining, existing, i,
                 batch, runs, exit, history>>

\* Lines 108-120: call() returns the finished run, whatever its terminal
\* status; the status is never read.  The dataset is drained and appended.
ScrapeCallReturns ==
  /\ cmd = "scrape" /\ pc = "call"
  /\ \E st \in TerminalStatus : \E items \in Dataset(Items(batch), st) :
       /\ failed' = IF st # "SUCCEEDED" /\ failed = 0 THEN Len(submitted) ELSE failed
       /\ existing' = existing \o items
       /\ fetched' = fetched \o items
  /\ pc' = "open"
  /\ UNCHANGED <<config, raw_file, comments_file, remaining, i, batch, runs,
                 exit, store0, durable, submitted>>

\* Lines 126-129: call() or iterate_items() raises; the handler prints and
\* breaks out of the loop.
ScrapeCallRaises ==
  /\ cmd = "scrape" /\ pc = "call"
  /\ failed' = IF failed = 0 THEN Len(submitted) ELSE failed
  /\ pc' = "convert"
  /\ UNCHANGED <<config, raw_file, comments_file, remaining, existing, i,
                 batch, runs, exit, store0, durable, submitted, fetched>>

\* Line 123: open(raw_file, "w") truncates the store.
ScrapeOpen ==
  /\ cmd = "scrape" /\ pc = "open"
  /\ raw_file' = Truncated
  /\ pc' = "dump"
  /\ UNCHANGED <<config, comments_file, remaining, existing, i, batch, runs,
                 exit, history>>

\* Mutant of ScrapeDump: the loop advances without the store being written.
ScrapeDump_unsaved ==
  /\ cmd = "scrape" /\ pc = "dump"
  /\ i' = i + batch_size
  /\ pc' = "loop"
  /\ UNCHANGED <<config, raw_file, comments_file, remaining, existing, batch,
                 runs, exit, store0, durable, submitted, fetched, failed>>

\* Line 124: json.dump(existing) and close; the loop advances.
ScrapeDump ==
  /\ cmd = "scrape" /\ pc = "dump"
  /\ raw_file' = FileOf(existing)
  /\ durable' = existing
  /\ i' = i + batch_size
  /\ pc' = "loop"
  /\ UNCHANGED <<config, comments_file, remaining, existing, batch, runs,
                 exit, store0, submitted, fetched, failed>>

\* Lines 131-143: convert_apify_to_csv opens the raw store; a missing or
\* half-written file raises.
ScrapeConvert ==
  /\ cmd = "scrape" /\ pc = "convert"
  /\ exit' = IF raw_file.exists /\ raw_file.valid THEN "ok" ELSE "crashed"
  /\ pc' = "done"
  /\ ProcessEnds
  /\ UNCHANGED <<config, raw_file, comments_file, runs, history>>

----------------------------------------------------------------------------
(* apify_scrape.cmd_comments *)

\* Lines 134-167: no URL in the posts data is fatal; all_comments starts
\* empty whatever the comments file holds.
CommentsStart ==
  /\ cmd = "comments" /\ Idle /\ runs < MaxRuns
  /\ runs' = runs + 1
  /\ store0' = comments_file
  /\ durable' = comments_file.data
  /\ submitted' = <<>> /\ fetched' = <<>> /\ failed' = 0
  /\ i' = 0 /\ batch' = <<>> /\ remaining' = <<>> /\ existing' = <<>>
  /\ IF post_urls = <<>>
       THEN pc' = "done" /\ exit' = "fatal"
       ELSE pc' = "loop" /\ exit' = "none"
  /\ UNCHANGED <<config, raw_file, comments_file>>

\* Lines 169-182.
CommentsSubmit ==
  /\ cmd = "comments" /\ pc = "loop" /\ i < Len(post_urls)
  /\ batch' = Batch(post_urls, i, batch_size)
  /\ submitted' = Append(submitted, batch')
  /\ pc' = "call"
  /\ UNCHANGED <<config, raw_file, comments_file, remaining, existing, i,
                 runs, exit, store0, durable, fetched, failed>>

\* Lines 169, 193-194: range() is exhausted; the command returns.
CommentsLoopEnd ==
  /\ cmd = "comments" /\ pc = "loop" /\ i >= Len(post_urls)
  /\ pc' = "done"
  /\ exit' = "ok"
  /\ ProcessEnds
  /\ UNCHANGED <<config, raw_file, comments_file, runs, history>>

\* Lines 175-187: as in cmd_scrape the run's status is never read.
CommentsCallReturns ==
  /\ cmd = "comments" /\ pc = "call"
  /\ \E st \in TerminalStatus : \E items \in Dataset(Comments(batch), st) :
       /\ failed' = IF st # "SUCCEEDED" /\ failed = 0 THEN Len(submitted) ELSE failed
       /\ existing' = existing \o items
       /\ fetched' = fetched \o items
  /\ pc' = "open"
  /\ UNCHANGED <<config, raw_file, comments_file, remaining, i, batch, runs,
                 exit, store0, durable, submitted>>

\* Lines 175-185: call() or the dataset iteration raises; nothing catches it.
CommentsCallRaises ==
  /\ cmd = "comments" /\ pc = "call"
  /\ failed' = IF failed = 0 THEN Len(submitted) ELSE failed
  /\ pc' = "done"
  /\ exit' = "crashed"
  /\ ProcessEnds
  /\ UNCHANGED <<config, raw_file, comments_file, runs, store0, durable,
                 submitted, fetched>>

\* Line 190: open(comments_file, "w") truncates the file.
CommentsOpen ==
  /\ cmd = "comments" /\ pc = "open"
  /\ comments_file' = Truncated
  /\ pc' = "dump"
  /\ UNCHANGED <<config, raw_file, remaining, existing, i, batch, runs, exit,
                 history>>

\* Line 191: json.dump(all_comments) and close; the loop advances.
CommentsDump ==
  /\ cmd = "comments" /\ pc = "dump"
  /\ comments_file' = FileOf(existing)
  /\ durable' = existing
  /\ i' = i + batch_size
  /\ pc' = "loop"
  /\ UNCHANGED <<config, raw_file, remaining, existing, batch, runs, exit,
                 store0, submitted, fetched, failed>>

\* The process is killed or interrupted (KeyboardInterrupt is not an
\* Exception: no handler of the batch loops catches it).
Kill ==
  /\ pc \in {"loop", "call", "open", "dump", "convert"}
  /\ pc' = "done"
  /\ exit' = "killed"
  /\ ProcessEnds
  /\ UNCHANGED <<config, raw_file, comments_file, runs, history>>

----------------------------------------------------------------------------
(* Properties *)

RECURSIVE Flatten(_)
Flatten(ss) == IF ss = <<>> THEN <<>> ELSE Head(ss) \o Flatten(Tail(ss))

Range(s) == {s[k] : k \in DOMAIN s}
IsPrefix(s, t) == Len(s) <= Len(t) /\ SubSeq(t, 1, Len(s)) = s
EndsWith(t, s) == Len(s) <= Len(t) /\ SubSeq(t, Len(t) - Len(s) + 1, Len(t)) = s
DuplicateFree(s) == \A j, k \in DOMAIN s : j # k => s[j] # s[k]

\* The result store of the running command and what the command loads of it.
Store == IF cmd = "scrape" THEN raw_file ELSE comments_file
Base == IF cmd = "scrape" THEN store0.data ELSE <<>>
Alive == pc \in {"loop", "call", "open", "dump", "convert"}

\* C1: after any sequence of cmd_scrape invocations over a duplicate-free
\* work list, no two records of the raw profile store have the same username.
C1_NoDuplicateIdentifier ==
  (cmd = "scrape" /\ DuplicateFree(all_usernames) /\ raw_file.valid)
    => \A j, k \in DOMAIN raw_file.data :
         (j # k /\ raw_file.data[j].username # 0)
           => raw_file.data[j].username # raw_file.data[k].username

\* The store after k checkpointed batches of an uninterrupted run over the
\* work list, started without a store.
CheckpointOf(k) ==
  IF k = 0 THEN NoFile
  ELSE FileOf(Items(SubSeq(all_usernames, 1,
                          Min(k * batch_size, Len(all_usernames)))))

\* C2: when cmd_scrape starts on the checkpoint of the first k batches of the
\* (duplicate-free) work list and every batch of it succeeds, the store it
\* leaves equals the store of one uninterrupted run over the list.
C2_IdempotentResume ==
  (/\ cmd = "scrape" /\ DuplicateFree(all_usernames) /\ all_usernames # <<>>
   /\ pc = "done" /\ exit = "ok" /\ failed = 0
   /\ \E k \in 0..Len(all_usernames) : store0 = CheckpointOf(k))
    => raw_file = FileOf(Items(all_usernames))

\* C3: when a cmd_scrape process is killed, the raw store on disk still holds
\* the records of the last completed checkpoint (those of the store the run
\* started on and of every batch checkpointed since).
C3_CrashLosesAtMostInFlight ==
  (cmd = "scrape" /\ DuplicateFree(all_usernames) /\ pc = "done" /\ exit = "killed")
    => /\ IsPrefix(durable, raw_file.data)
       /\ store0.exists => raw_file.valid

\* C4: once a run has not succeeded the batch loop is over: the process does
\* not go on, it has ended with a fatal error, and nothing was fetched from
\* the run that did not succeed nor from a later one.
C4_OnlySucceededRunsStored ==
  failed # 0 =>
    /\ ~Alive
    /\ exit \in {"fatal", "crashed"}
    /\ fetched = (IF cmd = "scrape" THEN Items(Flatten(SubSeq(submitted, 1, failed - 1)))
                  ELSE Comments(Flatten(SubSeq(submitted, 1, failed - 1))))

\* C5: when the run of batch k of cmd_scrape fails, the invocation ends with
\* the store it started on plus the records of batches 1..k-1, batch k is
\* the last one submitted, and the invocation is fatal.
C5_FailedBatchAbortsRun ==
  (cmd = "scrape" /\ pc = "done" /\ exit # "killed" /\ failed # 0)
    => /\ raw_file.data =
            store0.data \o Items(Flatten(SubSeq(submitted, 1, failed - 1)))
       /\ Len(submitted) = failed
       /\ exit \in {"fatal", "crashed"}

\* C6: batches are sequential and checkpointed: while a batch is in flight
\* every earlier batch of the invocation has completed its checkpoint, and
\* the store on disk is complete and holds everything fetched so far (after
\* what the command loaded from the store at start).
C6_CheckpointBeforeNextBatch ==
  pc = "call" =>
    /\ i = batch_size * (Len(submitted) - 1)
    /\ EndsWith(Store.data, fetched)
    /\ Len(submitted) > 1 => (Store.valid /\ Store.data = Base \o fetched)

\* C6 witness: a second batch is in flight, records of the first are on disk
\* behind the records of an earlier invocation.
C6_Witness ==
  /\ cmd = "scrape" /\ pc = "call" /\ Len(submitted) = 2
  /\ fetched # <<>> /\ store0.data # <<>>

\* The list the batch loop of the running command cuts into batches.
WorkList == IF cmd = "scrape" THEN remaining ELSE post_urls

\* C7: the batches submitted so far, concatenated, are the work list up to
\* the loop index; each has between 1 and batch_size units; and when the
\* loop is exhausted they are the whole list, in ceil(N / batch_size) batches.
C7_BatchPartition ==
  (pc \in {"loop", "call", "open", "dump"}) =>
    LET n == Len(WorkList)
        upto == IF pc = "loop" THEN i ELSE i + batch_size
    IN  /\ Flatten(submitted) = SubSeq(WorkList, 1, Min(upto, n))
        /\ \A k \in DOMAIN submitted :
             Len(submitted[k]) >= 1 /\ Len(submitted[k]) <= batch_size
        /\ (pc = "loop" /\ i >= n) =>
             /\ Flatten(submitted) = WorkList
             /\ Len(submitted) * batch_size >= n
             /\ (Len(submitted) - 1) * batch_size < n
             /\ Len(submitted) = total_batches(n, batch_size)

\* C7 witness: the 137 URLs of cmd_comments went out as batches of 50, 50, 37.
C7_Witness ==
  /\ cmd = "comments" /\ pc = "loop" /\ i >= Len(post_urls)
  /\ Len(post_urls) = 137
  /\ <<Len(submitted[1]), Len(submitted[2]), Len(submitted[3])>> = <<50, 50, 37>>

\* C8: the remaining list cmd_scrape computes at start is the work list without
\* the units whose username is in the store, in the order of the work list;
\* every unit of the work list that no record of the store names is in it.
C8_RemainingIsOrderedFilter ==
  (cmd = "scrape" /\ pc \in {"loop", "convert"} /\ submitted = <<>>) =>
    LET done == {store0.data[k].username : k \in DOMAIN store0.data} \ {0}
    IN  /\ remaining = SelectSeq(all_usernames, LAMBDA u : u \notin done)
        /\ \A k \in DOMAIN all_usernames :
             (\A j \in DOMAIN store0.data :
                store0.data[j].username # all_usernames[k])
               => all_usernames[k] \in Range(remaining)

\* C8 witness: W = [u1, u2, u3, u4] on a store of {u1, u3} gives [u2, u4].
C8_Witness ==
  /\ cmd = "scrape" /\ pc = "loop"
  /\ all_usernames = <<1, 2, 3, 4>>
  /\ {store0.data[k].username : k \in DOMAIN store0.data} = {1, 3}
  /\ remaining = <<2, 4>>

\* C9: a post URL whose comments an earlier invocation of cmd_comments
\* persisted (a record made for it is in the store the invocation starts on)
\* is not submitted again.
C9_NoResubmission ==
  (cmd = "comments" /\ pc = "call") =>
    \A k \in DOMAIN batch :
      \A j \in DOMAIN store0.data : store0.data[j].of # batch[k]

Next ==
  \/ ScrapeStart
  \/ ScrapeSubmit
  \/ ScrapeLoopEnd
  \/ ScrapeCallReturns
  \/ ScrapeCallRaises
  \/ ScrapeOpen
  \/ ScrapeDump
  \/ ScrapeConvert
  \/ CommentsStart
  \/ CommentsSubmit
  \/ CommentsLoopEnd
  \/ CommentsCallReturns
  \/ CommentsCallRaises
  \/ CommentsOpen
  \/ CommentsDump
  \/ Kill

Spec == Init /\ [][Next]_vars

----------------------------------------------------------------------------
(* The resume step of cmd_scrape alone, on every work list of up to          *)
(* ResumeLen units and every store of up to two records.                     *)

StoredRecords == {[username |-> n, of |-> n] : n \in 0..4}

InitResume ==
  /\ cmd = "scrape"
  /\ batch_size = 1
  /\ all_usernames \in SeqsUpTo(Usernames, ResumeLen)
  /\ post_urls = <<>>
  /\ raw_file \in {NoFile, Truncated} \cup {FileOf(d) : d \in SeqsUpTo(StoredRecords, 2)}
  /\ comments_file = NoFile
  /\ pc = "idle"
  /\ remaining = <<>>
  /\ existing = <<>>
  /\ i = 0
  /\ batch = <<>>
  /\ runs = 0
  /\ exit = "none"
  /\ store0 = NoFile
  /\ durable = <<>>
  /\ submitted = <<>>
  /\ fetched = <<>>
  /\ failed = 0
  /\ ApiInit

NextResume == ScrapeStart /\ runs = 0

SpecResume == InitResume /\ [][NextResume]_vars

----------------------------------------------------------------------------
(* ig_api_scraper: api_get and cmd_followers *)

\* The follower list the endpoint serves, a page per cursor; a follower is
\* its pk.  Follower 2 is on both pages (the list moved between requests).
Pages == <<<<1, 2>>, <<2, 3>>>>

\* next_max_id of the page at cursor c (0: none).
next_max_id(c) == IF c + 1 < Len(Pages) THEN c + 1 ELSE 0

\* collected[uid] = {...} for every user of the page: a dict keeps the place
\* of a key it already has.
RECURSIVE Collect(_, _)
Collect(dict, users) ==
  IF users = <<>> THEN dict
  ELSE Collect(IF \E k \in DOMAIN dict : dict[k] = Head(users)
                 THEN dict ELSE Append(dict, Head(users)),
               Tail(users))

\* 2 ** n
RECURSIVE Pow2(_)
Pow2(n) == IF n = 0 THEN 1 ELSE 2 * Pow2(n - 1)

\* A call of api_get begins (line 96, attempt 0).
ApiCall(who) ==
  /\ attempt' = 0
  /\ caller' = who
  /\ api_result' = ""
  /\ waits' = <<>>
  /\ pc' = "api"

\* Lines 100-104 and 123: a 429 is slept on; after the last attempt the loop
\* is left and api_get returns {}.
IgApi429 ==
  /\ cmd = "followers" /\ pc = "api"
  /\ waits' = Append(waits, 60 * Pow2(attempt))
  /\ attempt' = attempt + 1
  /\ IF attempt + 1 = ig_max_retries
       THEN /\ api_result' = "empty"
            /\ exhausted' = \A k \in DOMAIN waits' : waits'[k] = 60 * Pow2(k - 1)
            /\ pc' = "ret"
       ELSE UNCHANGED <<api_result, exhausted, pc>>
  /\ UNCHANGED <<batchVars, runs, exit, followers_file, collected, max_id,
                 page, caller, requested>>

\* Lines 106-108: sys.exit(1).
IgApi401 ==
  /\ cmd = "followers" /\ pc = "api"
  /\ pc' = "done"
  /\ exit' = "fatal"
  /\ unauthorized' = TRUE
  /\ UNCHANGED <<batchVars401, runs, apiVars>>

\* Lines 110-111.
IgApi404 ==
  /\ cmd = "followers" /\ pc = "api"
  /\ api_result' = "empty"
  /\ pc' = "ret"
  /\ UNCHANGED <<batchVars, runs, exit, followers_file, collected, max_id,
                 page, attempt, caller, waits, requested, exhausted>>

\* Lines 113-114.
IgApi200 ==
  /\ cmd = "followers" /\ pc = "api"
  /\ api_result' = "json"
  /\ pc' = "ret"
  /\ UNCHANGED <<batchVars, runs, exit, followers_file, collected, max_id,
                 page, attempt, caller, waits, requested, exhausted>>

\* Lines 116-121: a RequestException (a connection error, or the HTTPError
\* of raise_for_status) is slept on, and re-raised on the last attempt;
\* cmd_followers has no handler, so the process dies with it.
IgApiError ==
  /\ cmd = "followers" /\ pc = "api"
  /\ IF attempt = ig_max_retries - 1
       THEN /\ pc' = "done"
            /\ exit' = "crashed"
            /\ UNCHANGED <<attempt, waits>>
       ELSE /\ waits' = Append(waits, 30 * Pow2(attempt))
            /\ attempt' = attempt + 1
            /\ UNCHANGED <<pc, exit>>
  /\ UNCHANGED <<batchVars, runs, followers_file, collected, max_id, page,
                 caller, api_result, requested, exhausted>>

\* Lines 141-151, 126-129: resolve_user_id asks for the target's profile.
FollowersStart ==
  /\ cmd = "followers" /\ Idle /\ runs < MaxRuns
  /\ runs' = runs + 1
  /\ exit' = "none"
  /\ collected' = <<>>
  /\ max_id' = 0
  /\ page' = 0
  /\ requested' = <<>>
  /\ exhausted' = FALSE
  /\ unauthorized' = FALSE
  /\ ApiCall("resolve")
  /\ UNCHANGED <<batchVars401, followers_file>>

\* Lines 130-134, 158-169: no user in the answer is fatal; otherwise the
\* progress file is loaded and the cursor starts at "".
FollowersResolved ==
  /\ cmd = "followers" /\ pc = "ret" /\ caller = "resolve"
  /\ IF api_result = "json"
       THEN /\ collected' = followers_file.data
            /\ pc' = "loop"
            /\ UNCHANGED exit
       ELSE /\ pc' = "done"
            /\ exit' = "fatal"
            /\ UNCHANGED collected
  /\ UNCHANGED <<batchVars, runs, followers_file, max_id, page, attempt,
                 caller, api_result, waits, requested, exhausted>>

\* Lines 171-178: the next page is requested.
FollowersRequest ==
  /\ cmd = "followers" /\ pc = "loop"
  /\ page' = page + 1
  /\ requested' = Append(requested, max_id)
  /\ ApiCall("page")
  /\ UNCHANGED <<batchVars, runs, exit, followers_file, collected, max_id,
                 exhausted>>

\* Lines 180-219: an answer without users ends the loop; otherwise the users
\* are merged and the file written, and a page without next_max_id ends the
\* loop.  The command then writes the file again and returns.
FollowersPage ==
  /\ cmd = "followers" /\ pc = "ret" /\ caller = "page"
  /\ LET users == IF api_result = "json" THEN Pages[max_id + 1] ELSE <<>>
     IN  /\ collected' = Collect(collected, users)
         /\ IF users # <<>> /\ next_max_id(max_id) # 0
              THEN /\ followers_file' = FileOf(collected')
                   /\ max_id' = next_max_id(max_id)
                   /\ pc' = "loop"
                   /\ UNCHANGED exit
              ELSE /\ followers_file' = FileOf(collected')
                   /\ pc' = "done"
                   /\ exit' = "ok"
                   /\ UNCHANGED max_id
  /\ UNCHANGED <<batchVars, runs, page, attempt, caller, api_result, waits,
                 requested, exhausted>>

InitFollowers ==
  /\ cmd = "followers"
  /\ batch_size = 1
  /\ all_usernames = <<>>
  /\ post_urls = <<>>
  /\ raw_file = NoFile
  /\ comments_file = NoFile
  /\ pc = "idle"
  /\ remaining = <<>>
  /\ existing = <<>>
  /\ i = 0
  /\ batch = <<>>
  /\ runs = 0
  /\ exit = "none"
  /\ store0 = NoFile
  /\ durable = <<>>
  /\ submitted = <<>>
  /\ fetched = <<>>
  /\ failed = 0
  /\ ApiInit

NextFollowers ==
  \/ FollowersStart
  \/ FollowersResolved
  \/ FollowersRequest
  \/ FollowersPage
  \/ IgApi429
  \/ IgApi401
  \/ IgApi404
  \/ IgApi200
  \/ IgApiError

SpecFollowers == InitFollowers /\ [][NextFollowers]_vars

\* C10: once an api_get call has had every attempt answered 429, the
\* invocation ends with a fatal error: as soon as the call has returned the
\* process is over and its exit is fatal.
C10_RateLimitExhaustedIsFatal ==
  exhausted => (pc = "ret" \/ (pc = "done" /\ exit = "fatal"))

----------------------------------------------------------------------------
(* export_scraper: api_get and cmd_enrich *)

\* What the batch loops use and the enrichment loop leaves alone.
scrapeVars0 == <<batch_size, all_usernames, post_urls, raw_file,
                 comments_file, batch, durable, submitted, fetched, failed,
                 lines, normVars>>
scrapeVars == <<scrapeVars0, store0, persisted>>

\* What ig_api_scraper.cmd_followers uses and the enrichment loop leaves alone.
pageVars == <<followers_file, collected, max_id, page, caller, requested,
              exhausted>>

\* Duplicate-free lists of at most n elements of S.
RECURSIVE UniqueSeqs(_, _)
UniqueSeqs(S, n) ==
  IF n = 0 THEN {<<>>}
  ELSE LET shorter == UniqueSeqs(S, n - 1)
       IN  shorter \cup
             UNION {{Append(s, x) : x \in S \ {s[k] : k \in DOMAIN s}} :
                    s \in shorter}

\* The handles a followers file can hold: two profiles, and a second
\* spelling of the first (Username).
Handles == 1..3

\* "handle": user.get("username", username)
RowHandle(u) == IF Username(u) = 0 THEN u ELSE Username(u)

\* The enrichment loops over the private web API: export_scraper.cmd_enrich
\* and ig_api_scraper.cmd_enrich, which share their text but for the retry
\* count and the cap of api_get, the resume key and the 429 handler.
EnrichCmds == {"enrich", "ig_enrich"}

\* max_retries of api_get: 8 in export_scraper, 3 in ig_api_scraper.
max_retries == IF cmd = "ig_enrich" THEN ig_max_retries ELSE export_max_retries

\* wait of api_get: min(base * 2 ** attempt, 900) in export_scraper,
\* base * 2 ** attempt in ig_api_scraper.
backoff(base, attempt_) ==
  IF cmd = "ig_enrich" THEN base * Pow2(attempt_)
  ELSE Min(base * Pow2(attempt_), 900)

\* The resume key of a stored row: row["handle"] in export_scraper,
\* row["ig_user_id"] in ig_api_scraper (the id of a profile, which tells the
\* units apart as `of` does).
RowKey(row) == IF cmd = "ig_enrich" THEN row.of ELSE row.handle

\* enriched_ids of the resume block: the resume key of every row.
enriched_ids(file) ==
  IF ~file.exists THEN {}
  ELSE {RowKey(file.data[k]) : k \in DOMAIN file.data}

\* What api_get can raise to its caller: a RequestException without a
\* response, or the HTTPError of raise_for_status, whose status is never
\* 429, 401 or 404 (lines 271-282 return or continue before line 284).
Raised == {"raised", "raised_http"}

\* The locals of api_get no longer exist.
ApiReturns ==
  /\ attempt' = 0
  /\ waits' = <<>>
  /\ answers' = <<>>

\* Mutant of EnrichStart: the file is opened afresh, the rows of the earlier
\* run are not written back.
EnrichStart_fresh ==
  /\ cmd \in EnrichCmds /\ Idle /\ runs < MaxRuns
  /\ runs' = runs + 1
  /\ remaining' = Remaining(followers, enriched_ids(profiles_file))
  /\ existing' = profiles_file.data
  /\ i' = 0
  /\ processed' = 0
  /\ errors' = 0
  /\ asked' = <<>>
  /\ outcomes' = <<>>
  /\ gap' = <<>>
  /\ prev_gap' = <<>>
  /\ unauthorized' = FALSE
  /\ api_result' = ""
  /\ ApiReturns
  /\ IF remaining' = <<>>
       THEN /\ pc' = "done" /\ exit' = "ok"
            /\ UNCHANGED profiles_file
       ELSE /\ pc' = "unit" /\ exit' = "none"
            /\ profiles_file' = FileOf(<<>>)
  /\ store0' = profiles_file
  /\ UNCHANGED <<cmd, scrapeVars0, persisted, pageVars, sfVars,
                 followers>>

\* Mutant of EnrichStart: the file is written back before the test for
\* nothing remaining.
EnrichStart_rewrites ==
  /\ cmd \in EnrichCmds /\ Idle /\ runs < MaxRuns
  /\ runs' = runs + 1
  /\ remaining' = Remaining(followers, enriched_ids(profiles_file))
  /\ existing' = profiles_file.data
  /\ i' = 0
  /\ processed' = 0
  /\ errors' = 0
  /\ asked' = <<>>
  /\ outcomes' = <<>>
  /\ gap' = <<>>
  /\ prev_gap' = <<>>
  /\ unauthorized' = FALSE
  /\ api_result' = ""
  /\ ApiReturns
  /\ IF remaining' = <<>>
       THEN pc' = "done" /\ exit' = "ok"
       ELSE pc' = "unit" /\ exit' = "none"
  /\ profiles_file' = FileOf(existing')
  /\ store0' = profiles_file
  /\ UNCHANGED <<cmd, scrapeVars0, persisted, pageVars, sfVars,
                 followers>>

\* Lines 343-400 (ig_api_scraper: 222-275): the followers are loaded, the
\* rows of an earlier run are read and written back under a fresh header.
\* Nothing to enrich returns.  store0 records the file the invocation found.
EnrichStart ==
  /\ cmd \in EnrichCmds /\ Idle /\ runs < MaxRuns
  /\ runs' = runs + 1
  /\ remaining' = Remaining(followers, enriched_ids(profiles_file))
  /\ existing' = profiles_file.data
  /\ i' = 0
  /\ processed' = 0
  /\ errors' = 0
  /\ asked' = <<>>
  /\ outcomes' = <<>>
  /\ gap' = <<>>
  /\ prev_gap' = <<>>
  /\ unauthorized' = FALSE
  /\ api_result' = ""
  /\ ApiReturns
  /\ IF remaining' = <<>>
       THEN /\ pc' = "done" /\ exit' = "ok"
            /\ UNCHANGED profiles_file
       ELSE /\ pc' = "unit" /\ exit' = "none"
            /\ profiles_file' = FileOf(existing')
  /\ store0' = profiles_file
  /\ UNCHANGED <<cmd, scrapeVars0, persisted, pageVars, sfVars,
                 followers>>

\* Lines 403-409 (ig_api_scraper: 278-285): api_get is called for the next
\* follower.
EnrichRequest ==
  /\ cmd \in EnrichCmds /\ pc = "unit" /\ i < Len(remaining)
  /\ asked' = Append(asked, remaining[i + 1])
  /\ prev_gap' = gap
  /\ gap' = <<>>
  /\ api_result' = ""
  /\ ApiReturns
  /\ pc' = "xapi"
  /\ UNCHANGED <<cmd, scrapeVars, pageVars, sfVars, outcomes,
                 followers, profiles_file,
                 remaining, existing, i, runs, exit, processed, errors,
                 unauthorized>>

\* Mutant of ExApi429: the 429 answer goes on to raise_for_status, and its
\* HTTPError is handled as a RequestException.
ExApi429_raised ==
  /\ cmd \in EnrichCmds /\ pc = "xapi"
  /\ answers' = Append(answers, "429")
  /\ IF attempt = max_retries - 1
       THEN /\ api_result' = "raised_429"
            /\ pc' = "xret"
            /\ UNCHANGED <<attempt, waits>>
       ELSE /\ waits' = Append(waits, backoff(30, attempt))
            /\ attempt' = attempt + 1
            /\ UNCHANGED <<api_result, pc>>
  /\ UNCHANGED <<cmd, scrapeVars, pageVars, sfVars, outcomes,
                 followers, profiles_file,
                 remaining, existing, i, runs, exit, processed, errors,
                 asked, gap, prev_gap, unauthorized>>

\* Lines 271-275 and 294 (ig_api_scraper: 100-104 and 123): a 429 is slept
\* on, in export_scraper at most 900 s; after the last
\* attempt the loop is left and api_get returns {}.
ExApi429 ==
  /\ cmd \in EnrichCmds /\ pc = "xapi"
  /\ waits' = Append(waits, backoff(60, attempt))
  /\ answers' = Append(answers, "429")
  /\ attempt' = attempt + 1
  /\ IF attempt + 1 = max_retries
       THEN api_result' = "empty" /\ pc' = "xret"
       ELSE UNCHANGED <<api_result, pc>>
  /\ UNCHANGED <<cmd, scrapeVars, pageVars, sfVars, outcomes,
                 followers, profiles_file,
                 remaining, existing, i, runs, exit, processed, errors,
                 asked, gap, prev_gap, unauthorized>>

\* Mutant of ExApi401: the exit is taken for an exception of the unit.
ExApi401_swallowed ==
  /\ cmd \in EnrichCmds /\ pc = "xapi"
  /\ unauthorized' = TRUE
  /\ api_result' = "raised"
  /\ pc' = "xret"
  /\ UNCHANGED <<cmd, scrapeVars, pageVars, sfVars, outcomes,
                 followers, profiles_file,
                 remaining, existing, i, runs, exit, processed, errors,
                 attempt, waits, answers, asked, gap, prev_gap>>

\* Lines 277-279 (ig_api_scraper: 106-108): sys.exit(1).  SystemExit is no RequestException and no
\* Exception, and no KeyboardInterrupt: no handler of api_get or of cmd_enrich
\* catches it.
ExApi401 ==
  /\ cmd \in EnrichCmds /\ pc = "xapi"
  /\ unauthorized' = TRUE
  /\ pc' = "done"
  /\ exit' = "fatal"
  /\ ProcessEnds
  /\ api_result' = ""
  /\ ApiReturns
  /\ UNCHANGED <<cmd, scrapeVars, pageVars, sfVars, outcomes,
                 followers, profiles_file, runs,
                 processed, errors, asked, gap, prev_gap>>

\* Lines 281-282 (ig_api_scraper: 110-111).
ExApi404 ==
  /\ cmd \in EnrichCmds /\ pc = "xapi"
  /\ api_result' = "empty"
  /\ pc' = "xret"
  /\ UNCHANGED <<cmd, scrapeVars, pageVars, sfVars, outcomes,
                 followers, profiles_file,
                 remaining, existing, i, runs, exit, processed, errors,
                 attempt, waits, answers, asked, gap, prev_gap, unauthorized>>

\* Lines 284-285 (ig_api_scraper: 113-114): the JSON of a 200 answer, with or without a user in it.
ExApi200 ==
  /\ cmd \in EnrichCmds /\ pc = "xapi"
  /\ api_result' \in {"user", "nouser"}
  /\ pc' = "xret"
  /\ UNCHANGED <<cmd, scrapeVars, pageVars, sfVars, outcomes,
                 followers, profiles_file,
                 remaining, existing, i, runs, exit, processed, errors,
                 attempt, waits, answers, asked, gap, prev_gap, unauthorized>>

\* Mutant of ExApiError: the wait does not grow with the attempt.
ExApiError_flat ==
  /\ cmd \in EnrichCmds /\ pc = "xapi"
  /\ IF attempt = max_retries - 1
       THEN /\ api_result' = "raised"
            /\ pc' = "xret"
            /\ UNCHANGED <<attempt, waits, answers>>
       ELSE /\ waits' = Append(waits, 30)
            /\ answers' = Append(answers, "error")
            /\ attempt' = attempt + 1
            /\ UNCHANGED <<api_result, pc>>
  /\ UNCHANGED <<cmd, scrapeVars, pageVars, sfVars, outcomes,
                 followers, profiles_file,
                 remaining, existing, i, runs, exit, processed, errors,
                 asked, gap, prev_gap, unauthorized>>

\* Lines 287-292 (ig_api_scraper: 116-121): a RequestException (a connection
\* error, or the HTTPError of raise_for_status) is slept on, in
\* export_scraper at most 900 s, and re-raised on the last attempt.
ExApiError ==
  /\ cmd \in EnrichCmds /\ pc = "xapi"
  /\ IF attempt = max_retries - 1
       THEN /\ api_result' \in Raised
            /\ pc' = "xret"
            /\ UNCHANGED <<attempt, waits, answers>>
       ELSE /\ waits' = Append(waits, backoff(30, attempt))
            /\ answers' = Append(answers, "error")
            /\ attempt' = attempt + 1
            /\ UNCHANGED <<api_result, pc>>
  /\ UNCHANGED <<cmd, scrapeVars, pageVars, sfVars, outcomes,
                 followers, profiles_file,
                 remaining, existing, i, runs, exit, processed, errors,
                 asked, gap, prev_gap, unauthorized>>

\* Lines 410-483 (ig_api_scraper: 286-357), the rest of the loop body.  No user: errors += 1 and
\* continue.  A user: the row is appended, then the pacing sleep and, every
\* 40 rows, the batch pause.  An exception of api_get: errors += 1 and
\* sleep(5); an HTTPError of a 429: export_scraper sleeps 900 s and goes on
\* with the next follower, ig_api_scraper leaves the loop.
EnrichRow ==
  /\ cmd \in EnrichCmds /\ pc = "xret"
  /\ LET username == remaining[i + 1]
         row == [handle |-> RowHandle(username), of |-> username]
     IN  CASE api_result = "user" ->
                /\ profiles_file' = FileOf(Append(profiles_file.data, row))
                /\ persisted' = persisted \cup {row}
                /\ processed' = processed + 1
                /\ gap' = IF processed' % 40 = 0 THEN <<4, 45>> ELSE <<4>>
                /\ UNCHANGED errors
           [] api_result = "raised_429" ->
                /\ gap' = IF cmd = "ig_enrich" THEN gap ELSE <<900>>
                /\ UNCHANGED <<profiles_file, persisted, processed, errors>>
           [] api_result \in Raised ->
                /\ errors' = errors + 1
                /\ gap' = <<5>>
                /\ UNCHANGED <<profiles_file, persisted, processed>>
           [] OTHER ->
                /\ errors' = errors + 1
                /\ UNCHANGED <<profiles_file, persisted, processed, gap>>
  /\ outcomes' = Append(outcomes,
                        CASE api_result = "user" -> "row"
                          [] api_result = "raised_429" -> "backoff"
                          [] api_result \in Raised -> "network"
                          [] Len(answers) = max_retries -> "ratelimit"
                          [] OTHER -> "notfound")
  /\ api_result' = ""
  /\ ApiReturns
  /\ IF api_result = "raised_429" /\ cmd = "ig_enrich"
       THEN /\ pc' = "done"
            /\ exit' = "ok"
            /\ ProcessEnds
       ELSE /\ i' = i + 1
            /\ pc' = "unit"
            /\ UNCHANGED <<remaining, existing, exit>>
  /\ UNCHANGED <<cmd, scrapeVars0, store0, pageVars, sfVars,
                 followers, runs, asked, prev_gap, unauthorized>>

\* Lines 488-492 (ig_api_scraper: 362-366): the loop is over, the tally is
\* printed.
EnrichEnd ==
  /\ cmd \in EnrichCmds /\ pc = "unit" /\ i = Len(remaining)
  /\ pc' = "done"
  /\ exit' = "ok"
  /\ ProcessEnds
  /\ UNCHANGED <<cmd, scrapeVars, apiVars, sfVars, outcomes, followers, profiles_file,
                 runs, processed, errors, answers, asked, gap, prev_gap,
                 unauthorized>>

\* Lines 485-492 (ig_api_scraper: 359-366): a KeyboardInterrupt raised inside
\* the loop is caught; the tally is printed and the command returns.
EnrichInterrupt ==
  /\ cmd \in EnrichCmds /\ pc \in {"unit", "xapi", "xret"}
  /\ pc' = "done"
  /\ exit' = "ok"
  /\ ProcessEnds
  /\ api_result' = ""
  /\ ApiReturns
  /\ UNCHANGED <<cmd, scrapeVars, pageVars, sfVars, outcomes,
                 followers, profiles_file, runs,
                 processed, errors, asked, gap, prev_gap, unauthorized>>

\* The state before the first invocation of the enrichment loop `c`.
EnrichInitOf(c) ==
  /\ cmd = c
  /\ batch_size = 1
  /\ all_usernames = <<>>
  /\ post_urls = <<>>
  /\ raw_file = NoFile
  /\ comments_file = NoFile
  /\ pc = "idle"
  /\ remaining = <<>>
  /\ existing = <<>>
  /\ i = 0
  /\ batch = <<>>
  /\ runs = 0
  /\ exit = "none"
  /\ store0 = NoFile
  /\ durable = <<>>
  /\ submitted = <<>>
  /\ fetched = <<>>
  /\ failed = 0
  /\ followers_file = NoFile
  /\ collected = <<>>
  /\ max_id = 0
  /\ page = 0
  /\ attempt = 0
  /\ caller = ""
  /\ api_result = ""
  /\ waits = <<>>
  /\ requested = <<>>
  /\ exhausted = FALSE
  /\ followers \in UniqueSeqs(Handles, MaxFollowers)
  /\ profiles_file = NoFile
  /\ processed = 0
  /\ errors = 0
  /\ answers = <<>>
  /\ asked = <<>>
  /\ gap = <<>>
  /\ prev_gap = <<>>
  /\ unauthorized = FALSE
  /\ outcomes = <<>>
  /\ SfInit
  /\ lines = <<>>
  /\ raw_rows = <<>>
  /\ table = <<>>
  /\ persisted = {}

InitEnrich == EnrichInitOf("enrich")

InitIgEnrich == EnrichInitOf("ig_enrich")

NextEnrich ==
  \/ EnrichStart
  \/ EnrichRequest
  \/ EnrichRow
  \/ EnrichEnd
  \/ EnrichInterrupt
  \/ ExApi429
  \/ ExApi401
  \/ ExApi404
  \/ ExApi200
  \/ ExApiError

SpecEnrich == InitEnrich /\ [][NextEnrich]_vars

\* The number of the 429 answer at place k among the 429 answers that reach
\* it without another answer in between.
RECURSIVE Consecutive429(_, _)
Consecutive429(ans, k) ==
  IF k = 0 \/ ans[k] # "429" THEN 0 ELSE 1 + Consecutive429(ans, k - 1)

\* C11: within one api_get call the k-th consecutive 429 answer is followed
\* by a wait of min(60 * 2^(k-1), 900) seconds, also when earlier attempts
\* of the call failed with network errors.
C11_BackoffSchedule ==
  \A k \in DOMAIN answers :
    answers[k] = "429" =>
      waits[k] = Min(60 * Pow2(Consecutive429(answers, k) - 1), 900)

----------------------------------------------------------------------------
(* scrape_followers.cmd_followers *)

\* The followers profile.get_followers() yields, in the order it yields them.
TargetFollowers == <<2, 1, 3>>

\* sorted(collected)
RECURSIVE sorted(_)
sorted(S) ==
  IF S = {} THEN <<>>
  ELSE LET least == CHOOSE x \in S : \A y \in S : x <= y
       IN  <<least>> \o sorted(S \ {least})

\* What cmd_followers of scrape_followers leaves alone.
notSf == <<cmd, scrapeVars, pageVars, enrichVars, remaining, existing, i,
           api_result>>

\* Lines 81-108: the progress file is loaded and the target looked up; a
\* target that does not exist is fatal.
SfStart ==
  /\ cmd = "sf_followers" /\ Idle /\ runs < MaxRuns
  /\ runs' = runs + 1
  /\ sf_collected' = IF sf_file.exists THEN Range(sf_file.data) ELSE {}
  /\ attempt' = 0
  /\ waits' = <<>>
  /\ iter_pos' = 0
  /\ starts' = 0
  /\ \E found \in BOOLEAN :
       IF found THEN pc' = "try" /\ exit' = "none"
                ELSE pc' = "done" /\ exit' = "fatal"
  /\ store0' = sf_file
  /\ UNCHANGED <<cmd, scrapeVars0, persisted, pageVars, enrichVars, remaining,
                 existing, i, api_result, sf_file>>

\* Lines 110-119: after the first attempt the retry delay is slept on, then
\* the follower iteration starts from the beginning.
SfTry ==
  /\ cmd = "sf_followers" /\ pc = "try"
  /\ waits' = IF attempt > 0
                THEN Append(waits, retry_delay * Pow2(attempt - 1))
                ELSE waits
  /\ starts' = starts + 1
  /\ iter_pos' = 0
  /\ pc' = "iter"
  /\ UNCHANGED <<notSf, sf_file, sf_collected, attempt, runs, exit>>

\* Mutant of SfRateLimited: the attempt is not counted.
SfRateLimited_uncounted ==
  /\ cmd = "sf_followers" /\ pc = "iter"
  /\ sf_file' = FileOf(sorted(sf_collected))
  /\ pc' = "try"
  /\ UNCHANGED <<notSf, sf_collected, iter_pos, starts, waits, runs, exit,
                 attempt>>

\* Lines 121-130: the next follower is taken; one not yet collected is
\* added, and every save_interval followers the file is written.
SfYield ==
  /\ cmd = "sf_followers" /\ pc = "iter" /\ iter_pos < Len(TargetFollowers)
  /\ iter_pos' = iter_pos + 1
  /\ LET username == TargetFollowers[iter_pos + 1]
     IN  IF username \in sf_collected
           THEN UNCHANGED <<sf_collected, sf_file>>
           ELSE /\ sf_collected' = sf_collected \cup {username}
                /\ sf_file' = IF Cardinality(sf_collected') % save_interval = 0
                                THEN FileOf(sorted(sf_collected'))
                                ELSE sf_file
  /\ UNCHANGED <<notSf, attempt, waits, starts, pc, runs, exit>>

\* Lines 140-141, 157-159: the iteration is complete; the file is written.
SfIterEnd ==
  /\ cmd = "sf_followers" /\ pc = "iter" /\ iter_pos = Len(TargetFollowers)
  /\ sf_file' = FileOf(sorted(sf_collected))
  /\ pc' = "done"
  /\ exit' = "ok"
  /\ UNCHANGED <<notSf, sf_collected, iter_pos, starts, attempt, waits, runs>>

\* Lines 143-152, 157-159: a ConnectionException or a
\* QueryReturnedBadRequestException of the iteration: the file is written
\* and the next attempt begins; after the last one the file is written again
\* and the command returns.
SfRateLimited ==
  /\ cmd = "sf_followers" /\ pc = "iter"
  /\ sf_file' = FileOf(sorted(sf_collected))
  /\ IF attempt = sf_max_retries - 1
       THEN /\ pc' = "done"
            /\ exit' = "ok"
            /\ UNCHANGED attempt
       ELSE /\ attempt' = attempt + 1
            /\ pc' = "try"
            /\ UNCHANGED exit
  /\ UNCHANGED <<notSf, sf_collected, iter_pos, starts, waits, runs>>

\* Mutant of SfInterrupt: the command returns without the final write.
SfInterrupt_unsaved ==
  /\ cmd = "sf_followers" /\ pc \in {"try", "iter"}
  /\ pc' = "done"
  /\ exit' = "ok"
  /\ UNCHANGED <<notSf, sf_file, sf_collected, iter_pos, starts, attempt,
                 waits, runs>>

\* Lines 153-159: a KeyboardInterrupt inside the try block leaves the retry
\* loop; the file is written and the command returns.
SfInterrupt ==
  /\ cmd = "sf_followers" /\ pc \in {"try", "iter"}
  /\ sf_file' = FileOf(sorted(sf_collected))
  /\ pc' = "done"
  /\ exit' = "ok"
  /\ UNCHANGED <<notSf, sf_collected, iter_pos, starts, attempt, waits, runs>>

InitSf ==
  /\ cmd = "sf_followers"
  /\ batch_size = 1
  /\ all_usernames = <<>>
  /\ post_urls = <<>>
  /\ raw_file = NoFile
  /\ comments_file = NoFile
  /\ pc = "idle"
  /\ remaining = <<>>
  /\ existing = <<>>
  /\ i = 0
  /\ batch = <<>>
  /\ runs = 0
  /\ exit = "none"
  /\ store0 = NoFile
  /\ durable = <<>>
  /\ submitted = <<>>
  /\ fetched = <<>>
  /\ failed = 0
  /\ ApiInit

NextSf ==
  \/ SfStart
  \/ SfTry
  \/ SfYield
  \/ SfIterEnd
  \/ SfRateLimited
  \/ SfInterrupt

----------------------------------------------------------------------------
(* scrape_followers.cmd_enrich *)

\* What Profile.from_username can end in for one follower.  A
\* ConnectionException is told from a rate limit by its text alone
\* ("429" in str(e) or "rate" in str(e).lower()), so one raised for a network
\* failure counts as a rate limit when its text, which quotes what was asked
\* for, has one of the two words in it.
LookupResults ==
  {[kind |-> "profile",    cause |-> "",        text_matches |-> FALSE],
   [kind |-> "notexists",  cause |-> "",        text_matches |-> FALSE],
   [kind |-> "connection", cause |-> "429",     text_matches |-> TRUE],
   [kind |-> "connection", cause |-> "network", text_matches |-> FALSE],
   [kind |-> "connection", cause |-> "network", text_matches |-> TRUE],
   [kind |-> "badrequest", cause |-> "429",     text_matches |-> FALSE]}

\* What cmd_enrich of scrape_followers leaves alone.
notSfEnrich == <<cmd, scrapeVars, pageVars, followers, answers, unauthorized,
                 sf_file, sf_collected, iter_pos, starts, attempt, waits,
                 api_result>>

\* Lines 162-226: without a followers file the command is fatal; otherwise
\* the rows of an earlier run are read and written back under a fresh header.
\* Nothing to enrich returns.
SfEnrichStart ==
  /\ cmd = "sf_enrich" /\ Idle /\ runs < MaxRuns
  /\ runs' = runs + 1
  /\ i' = 0
  /\ processed' = 0
  /\ errors' = 0
  /\ asked' = <<>>
  /\ outcomes' = <<>>
  /\ gap' = <<>>
  /\ prev_gap' = <<>>
  /\ IF ~sf_file.exists
       THEN /\ pc' = "done" /\ exit' = "fatal"
            /\ remaining' = <<>> /\ existing' = <<>>
            /\ UNCHANGED profiles_file
       ELSE /\ remaining' = Remaining(sf_file.data, enriched_ids(profiles_file))
            /\ existing' = profiles_file.data
            /\ IF remaining' = <<>>
                 THEN /\ pc' = "done" /\ exit' = "ok"
                      /\ UNCHANGED profiles_file
                 ELSE /\ pc' = "sunit" /\ exit' = "none"
                      /\ profiles_file' = FileOf(existing')
  /\ store0' = profiles_file
  /\ UNCHANGED <<cmd, scrapeVars0, persisted, pageVars, followers, answers,
                 unauthorized, sf_file, sf_collected, iter_pos, starts,
                 attempt, waits, api_result>>

\* Lines 229-290, one turn of the loop.  A profile: the row is appended, then
\* the pacing sleep and, every 50 rows, the batch pause.  No such profile:
\* errors += 1 and continue.  A ConnectionException whose text has "429" or
\* "rate" in it, or a QueryReturnedBadRequestException: break.  Any other
\* ConnectionException: errors += 1, sleep(10), continue.
SfEnrichUnit ==
  /\ cmd = "sf_enrich" /\ pc = "sunit" /\ i < Len(remaining)
  /\ asked' = Append(asked, remaining[i + 1])
  /\ prev_gap' = gap
  /\ \E r \in LookupResults :
       LET username == remaining[i + 1]
       IN  CASE r.kind = "profile" ->
                  /\ profiles_file' =
                       FileOf(Append(profiles_file.data,
                                     [handle |-> username, of |-> username]))
                  /\ processed' = processed + 1
                  /\ gap' = IF processed' % 50 = 0 THEN <<3, 30>> ELSE <<3>>
                  /\ outcomes' = Append(outcomes, "row")
                  /\ pc' = "sunit"
                  /\ UNCHANGED errors
             [] r.kind = "notexists" ->
                  /\ errors' = errors + 1
                  /\ gap' = <<>>
                  /\ outcomes' = Append(outcomes, "notfound")
                  /\ pc' = "sunit"
                  /\ UNCHANGED <<profiles_file, processed>>
             [] r.kind = "connection" /\ r.text_matches ->
                  /\ gap' = <<>>
                  /\ outcomes' = Append(outcomes, IF r.cause = "429"
                                                    THEN "ratelimit"
                                                    ELSE "network")
                  /\ pc' = "tally"
                  /\ UNCHANGED <<profiles_file, processed, errors>>
             [] r.kind = "connection" /\ ~r.text_matches ->
                  /\ errors' = errors + 1
                  /\ gap' = <<10>>
                  /\ outcomes' = Append(outcomes, "network")
                  /\ pc' = "sunit"
                  /\ UNCHANGED <<profiles_file, processed>>
             [] OTHER ->
                  /\ gap' = <<>>
                  /\ outcomes' = Append(outcomes, "ratelimit")
                  /\ pc' = "tally"
                  /\ UNCHANGED <<profiles_file, processed, errors>>
  /\ i' = i + 1
  /\ UNCHANGED <<notSfEnrich, remaining, existing, runs, exit>>

\* Lines 295-299: the loop is over or was left; the tally is printed.
SfEnrichEnd ==
  /\ cmd = "sf_enrich"
  /\ (pc = "sunit" /\ i = Len(remaining)) \/ pc = "tally"
  /\ pc' = "done"
  /\ exit' = "ok"
  /\ ProcessEnds
  /\ UNCHANGED <<notSfEnrich, profiles_file, runs, processed, errors, asked,
                 outcomes, gap, prev_gap>>

\* Lines 292-299: a KeyboardInterrupt raised inside the loop is caught; the
\* tally is printed and the command returns.
SfEnrichInterrupt ==
  /\ cmd = "sf_enrich" /\ pc = "sunit"
  /\ pc' = "done"
  /\ exit' = "ok"
  /\ ProcessEnds
  /\ UNCHANGED <<notSfEnrich, profiles_file, runs, processed, errors, asked,
                 outcomes, gap, prev_gap>>

InitSfEnrich ==
  /\ cmd = "sf_enrich"
  /\ batch_size = 1
  /\ all_usernames = <<>>
  /\ post_urls = <<>>
  /\ raw_file = NoFile
  /\ comments_file = NoFile
  /\ pc = "idle"
  /\ remaining = <<>>
  /\ existing = <<>>
  /\ i = 0
  /\ batch = <<>>
  /\ runs = 0
  /\ exit = "none"
  /\ store0 = NoFile
  /\ durable = <<>>
  /\ submitted = <<>>
  /\ fetched = <<>>
  /\ failed = 0
  /\ followers_file = NoFile
  /\ collected = <<>>
  /\ max_id = 0
  /\ page = 0
  /\ attempt = 0
  /\ caller = ""
  /\ api_result = ""
  /\ waits = <<>>
  /\ requested = <<>>
  /\ exhausted = FALSE
  /\ followers = <<>>
  /\ profiles_file = NoFile
  /\ processed = 0
  /\ errors = 0
  /\ answers = <<>>
  /\ asked = <<>>
  /\ gap = <<>>
  /\ prev_gap = <<>>
  /\ unauthorized = FALSE
  /\ outcomes = <<>>
  /\ sf_file \in {NoFile} \cup
                 {FileOf(sorted(S)) : S \in {T \in SUBSET Handles :
                                               Cardinality(T) <= MaxFollowers}}
  /\ sf_collected = {}
  /\ iter_pos = 0
  /\ starts = 0
  /\ lines = <<>>
  /\ raw_rows = <<>>
  /\ table = <<>>
  /\ persisted = {}

NextSfEnrich ==
  \/ SfEnrichStart
  \/ SfEnrichUnit
  \/ SfEnrichEnd
  \/ SfEnrichInterrupt

----------------------------------------------------------------------------
(* The collectors that talk to Instagram: ig_api_scraper.cmd_followers,    *)
(* export_scraper.cmd_enrich, scrape_followers.cmd_followers and           *)
(* scrape_followers.cmd_enrich.                                            *)

InitCollect ==
  InitFollowers \/ InitEnrich \/ InitIgEnrich \/ InitSf \/ InitSfEnrich

NextCollect == NextFollowers \/ NextEnrich \/ NextSf \/ NextSfEnrich

SpecCollect == InitCollect /\ [][NextCollect]_vars

\* C12: the waits one api_get call applies, whatever mix of 429 answers and
\* network errors it sees, and the waits of the retry loop of
\* scrape_followers.cmd_followers, never decrease.
C12_BackoffMonotone ==
  \A k \in 1..(Len(waits) - 1) : waits[k] <= waits[k + 1]

\* An api_get call that saw both kinds of answer and reached the cap.
C12_Witness ==
  /\ cmd = "enrich"
  /\ Len(waits) = export_max_retries - 1
  /\ {"429", "error"} \subseteq Range(answers)
  /\ waits[1] = 60
  /\ waits[export_max_retries - 1] = 900

\* C13: every retry loop ends within its attempts.  While a request of
\* api_get is in flight it is at most the max_retries-th of the call, and
\* scrape_followers.cmd_followers calls get_followers() at most
\* max_retries times in an invocation.
C13_RetryLoopsTerminate ==
  /\ pc = "xapi" => attempt + 1 <= max_retries
  /\ pc = "api" => attempt + 1 <= ig_max_retries
  /\ cmd = "sf_followers" =>
       /\ starts <= sf_max_retries
       /\ pc \in {"try", "iter"} => attempt + 1 <= sf_max_retries

\* The follower iteration failed in every attempt and the command returned.
C13_Witness ==
  /\ cmd = "sf_followers"
  /\ starts = sf_max_retries
  /\ waits = <<60, 120, 240, 480>>
  /\ pc = "done"
  /\ exit = "ok"

\* C14: once a request was answered 401 the invocation is over with a fatal
\* exit: api_get does not retry, and no handler of the enrichment loop turns
\* the exit into a tallied error, so no later request is issued.
C14_UnauthorizedIsFatal ==
  unauthorized => pc = "done" /\ exit = "fatal"

\* The first of two followers was answered 401 on a retry; the second was
\* never asked for.
C14_Witness ==
  /\ cmd = "enrich"
  /\ unauthorized
  /\ Len(followers) = 2
  /\ asked = <<followers[1]>>
  /\ errors = 0

\* The units of `asked` that ended in a per-unit error.
PerUnitErrors == {k \in DOMAIN outcomes : outcomes[k] \in {"notfound", "network"}}

\* C15: a unit that ends in not-found or in a network error is tallied and
\* leaves no row, and the loop is not left because of it: while the
\* invocation runs, every such unit is counted in errors, no row written by
\* this invocation belongs to it, and the loop has not been left on it.
C15_PerUnitErrorsDoNotAbort ==
  (cmd \in {"enrich", "sf_enrich"} /\ pc \notin {"idle", "done"}) =>
    /\ errors >= Cardinality(PerUnitErrors)
    /\ \A k \in PerUnitErrors :
         \A j \in (Len(existing) + 1)..Len(profiles_file.data) :
           profiles_file.data[j].of # asked[k]
    /\ pc = "tally" => Len(outcomes) \notin PerUnitErrors

\* C17: in the enrichment loops a pacing delay has elapsed between any two
\* consecutive unit requests, whatever the first one ended in.
C17_PacingBetweenRequests ==
  (cmd \in {"enrich", "sf_enrich"} /\ Len(asked) >= 2) => prev_gap # <<>>

\* C16: an interrupt raised while a batch loop runs is caught: no invocation
\* of cmd_scrape or cmd_comments ends with the interrupt unhandled, and what
\* it had collected is in the store it leaves behind.
C16_InterruptIsCaught ==
  (cmd \in {"scrape", "comments"} /\ pc = "done" /\ runs > 0) =>
    /\ exit # "killed"
    /\ Store.exists => Store.valid

----------------------------------------------------------------------------
(* The work-unit sources: apify_to_report.load_usernames and               *)
(* export_scraper.parse_export / cmd_parse.                                *)

\* A line of the usernames file: a name (0: none), bare or written as
\* "name", with quotes and a trailing comma.  A bare line without a name is
\* a blank line.
FileLines == {[name |-> n, quoted |-> q] : n \in 0..2, q \in BOOLEAN}

\* line.strip().strip('"').strip(',').strip('"') for line in f
\* if line.strip(): blank lines are dropped, the quotes and the comma are
\* taken off; a line of quotes alone stays, as the empty name.
RECURSIVE load_usernames(_)
load_usernames(ls) ==
  IF ls = <<>> THEN <<>>
  ELSE IF Head(ls).name = 0 /\ ~Head(ls).quoted
         THEN load_usernames(Tail(ls))
         ELSE <<Head(ls).name>> \o load_usernames(Tail(ls))

\* Lines 197-206: an entry is kept unless its handle was seen before.
RECURSIVE parse_export(_, _)
parse_export(entries, seen) ==
  IF entries = <<>> THEN <<>>
  ELSE IF Head(entries) \in seen
         THEN parse_export(Tail(entries), seen)
         ELSE <<Head(entries)>>
                \o parse_export(Tail(entries), seen \cup {Head(entries)})

\* What the sources leave alone.
notSource == <<cmd, batch_size, post_urls, raw_file, comments_file, remaining,
               existing, i, batch, store0, durable, submitted, fetched,
               failed, apiVars, profiles_file, processed, errors, answers,
               asked, gap, prev_gap, unauthorized, outcomes, sfVars, lines,
               normVars, persisted>>

\* load_usernames, lines 41-60: the usernames file if one is given, else the
\* followers export if there is one, else sys.exit(1).
LoadUsernames ==
  /\ cmd = "load" /\ pc = "idle"
  /\ runs' = runs + 1
  /\ pc' = "done"
  /\ \E source \in {"usernames_file", "followers_export", "none"} :
       CASE source = "usernames_file" ->
              all_usernames' = load_usernames(lines) /\ exit' = "ok"
         [] source = "followers_export" ->
              all_usernames' = followers /\ exit' = "ok"
         [] OTHER ->
              all_usernames' = <<>> /\ exit' = "fatal"
  /\ UNCHANGED <<notSource, followers>>

\* cmd_parse, lines 301-340, with parse_export, lines 182-208: no follower
\* file in the export is fatal; otherwise the followers are saved.
CmdParse ==
  /\ cmd = "parse" /\ pc = "idle"
  /\ runs' = runs + 1
  /\ pc' = "done"
  /\ \E follower_files \in BOOLEAN :
       IF follower_files
         THEN followers' = parse_export(lines, {}) /\ exit' = "ok"
         ELSE followers' = <<>> /\ exit' = "fatal"
  /\ UNCHANGED <<notSource, all_usernames>>

InitSource ==
  /\ cmd \in {"load", "parse"}
  /\ batch_size = 1
  /\ all_usernames = <<>>
  /\ post_urls = <<>>
  /\ raw_file = NoFile
  /\ comments_file = NoFile
  /\ pc = "idle"
  /\ remaining = <<>>
  /\ existing = <<>>
  /\ i = 0
  /\ batch = <<>>
  /\ runs = 0
  /\ exit = "none"
  /\ store0 = NoFile
  /\ durable = <<>>
  /\ submitted = <<>>
  /\ fetched = <<>>
  /\ failed = 0
  /\ followers_file = NoFile
  /\ collected = <<>>
  /\ max_id = 0
  /\ page = 0
  /\ attempt = 0
  /\ caller = ""
  /\ api_result = ""
  /\ waits = <<>>
  /\ requested = <<>>
  /\ exhausted = FALSE
  /\ profiles_file = NoFile
  /\ processed = 0
  /\ errors = 0
  /\ answers = <<>>
  /\ asked = <<>>
  /\ gap = <<>>
  /\ prev_gap = <<>>
  /\ unauthorized = FALSE
  /\ outcomes = <<>>
  /\ SfInit
  /\ raw_rows = <<>>
  /\ table = <<>>
  /\ persisted = {}
  /\ IF cmd = "load"
       THEN /\ lines \in SeqsUpTo(FileLines, MaxLines)
            /\ followers \in UniqueSeqs(1..2, 2)
       ELSE /\ lines \in SeqsUpTo(1..3, MaxLines)
            /\ followers = <<>>

NextSource == LoadUsernames \/ CmdParse

SpecSource == InitSource /\ [][NextSource]_vars

\* The first occurrences of the elements of s, in their order.
FirstSeen(s) ==
  LET keep == {k \in DOMAIN s : \A j \in 1..(k - 1) : s[j] # s[k]}
      Nth[n \in 0..Cardinality(keep)] ==
        IF n = 0 THEN 0
        ELSE CHOOSE k \in keep : k > Nth[n - 1] /\
                                 \A j \in keep : j > Nth[n - 1] => k <= j
  IN  [n \in 1..Cardinality(keep) |-> s[Nth[n]]]

\* C18: the work-unit list holds no identifier twice and keeps the first
\* occurrences in their order, whether parse_export built it from the export
\* or load_usernames read it from the usernames file.
C18_WorkListDeduplicated ==
  /\ (cmd = "parse" /\ pc = "done" /\ exit = "ok") =>
       followers = FirstSeen(lines)
  /\ (cmd = "load" /\ pc = "done" /\ exit = "ok") =>
       /\ DuplicateFree(all_usernames)
       /\ all_usernames \in {FirstSeen(load_usernames(lines)), followers}

\* C19: a source without any work unit ends the invocation with a fatal
\* error instead of handing on an empty list.
C19_NoWorkUnitsIsFatal ==
  /\ (cmd = "parse" /\ pc = "done" /\ followers = <<>>) => exit = "fatal"
  /\ (cmd = "load" /\ pc = "done" /\ all_usernames = <<>>) => exit = "fatal"

\* C20: the resume step does not raise, whatever store it finds: without a
\* store the whole work list remains, and with one the units whose
\* identifier is the non-empty identifier of one of its records are left out.
C20_ResumeTrackerReadsStore ==
  (cmd = "scrape" /\ runs > 0) =>
    /\ exit # "crashed"
    /\ ~store0.exists => remaining = all_usernames
    /\ store0.exists =>
         remaining =
           SelectSeq(all_usernames,
                     LAMBDA u : \A k \in DOMAIN store0.data :
                                  store0.data[k].username = 0
                                    \/ store0.data[k].username # u)

\* ---------------------------------------------------------------------
\* The normalizers: apify_scrape.cmd_analyze (lines 228-287) and
\* apify_to_report.convert_apify_to_csv (lines 174-203).
\*
\* A JSON value is written as its Python literal: "None", "True", "False",
\* "0", "1", "7", "12", "''", "'bob'", ...; "absent" says that the record has
\* no such key.  A raw record is a function from the keys a normalizer reads
\* to such values.

\* The most raw records a followers file of the model holds.
MaxRows == 2

\* Python truth value of a JSON value.
Truthy(v) == v \notin {"None", "False", "0", "''"}

\* d.get(k): None when the key is absent.
get(d, k) == IF d[k] = "absent" THEN "None" ELSE d[k]

\* d.get(k, default): the default only when the key is absent.
get_default(d, k, default) == IF d[k] = "absent" THEN default ELSE d[k]

\* a or b
or(a, b) == IF Truthy(a) THEN a ELSE b

\* s.replace("\n", " | ")
replace_newlines(s) == IF s = "'a<LF>b'" THEN "'a | b'" ELSE s

\* The keys cmd_analyze reads of a raw follower record.
AnalyzeKeys ==
  {"username", "userName", "handle", "id", "pk", "userId", "iguid",
   "fullName", "full_name", "followerCount", "followers", "follower_count",
   "followingCount", "following", "following_count", "isVerified",
   "is_verified", "isPrivate", "is_private", "biography", "bio",
   "mediaCount", "postsCount", "post_count", "externalUrl", "external_url",
   "profilePicUrl", "profile_pic_url"}

\* The keys convert_apify_to_csv reads of a raw profile record.
ConvertKeys ==
  {"username", "id", "fullName", "followersCount", "followsCount",
   "verified", "private", "isBusinessAccount", "isProfessionalAccount",
   "businessCategoryName", "biography", "postsCount", "profilePicUrlHD",
   "profilePicUrl"}

\* The record over `keys` that has the keys of `given` and no other.
RawRecord(keys, given) ==
  [k \in keys |-> IF k \in DOMAIN given THEN given[k] ELSE "absent"]

\* The boolean-like values a source may hold.
BooleanLike == {"0", "1", "'true'", "'false'", "True", "False"}

\* The dict cmd_analyze appends for the raw record f_data.
analyze_row(f_data) ==
  [handle |-> or(get(f_data, "username"),
                 or(get(f_data, "userName"),
                    or(get(f_data, "handle"), "''"))),
   ig_user_id |-> or(get(f_data, "id"),
                     or(get(f_data, "pk"),
                        or(get(f_data, "userId"),
                           or(get(f_data, "iguid"), "''")))),
   full_name |-> or(get(f_data, "fullName"),
                    or(get(f_data, "full_name"), "''")),
   follower_count |-> or(get(f_data, "followerCount"),
                         or(get(f_data, "followers"),
                            or(get(f_data, "follower_count"), "0"))),
   following_count |-> or(get(f_data, "followingCount"),
                          or(get(f_data, "following"),
                             or(get(f_data, "following_count"), "0"))),
   is_verified |-> or(get(f_data, "isVerified"),
                      or(get(f_data, "is_verified"), "False")),
   is_private |-> or(get(f_data, "isPrivate"),
                     or(get(f_data, "is_private"), "False")),
   bio |-> replace_newlines(or(get(f_data, "biography"),
                               or(get(f_data, "bio"), "''"))),
   post_count |-> or(get(f_data, "mediaCount"),
                     or(get(f_data, "postsCount"),
                        or(get(f_data, "post_count"), "0"))),
   external_url |-> or(get(f_data, "externalUrl"),
                       or(get(f_data, "external_url"), "''")),
   profile_pic_url |-> or(get(f_data, "profilePicUrl"),
                          or(get(f_data, "profile_pic_url"), "''"))]

\* followers = [...] of cmd_analyze: one dict per raw record, in order.
analyze_rows(raw_followers) ==
  [k \in DOMAIN raw_followers |-> analyze_row(raw_followers[k])]

\* The row convert_apify_to_csv writes for `entry` (external_url and
\* follow_date, which come from other inputs, are left out).
convert_row(entry) ==
  [handle |-> get_default(entry, "username", "''"),
   ig_user_id |-> get_default(entry, "id", "''"),
   full_name |-> get_default(entry, "fullName", "''"),
   follower_count |-> get_default(entry, "followersCount", "0"),
   following_count |-> get_default(entry, "followsCount", "0"),
   is_verified |-> get_default(entry, "verified", "False"),
   is_private |-> get_default(entry, "private", "False"),
   is_business |-> get_default(entry, "isBusinessAccount", "False"),
   is_professional |-> get_default(entry, "isProfessionalAccount", "False"),
   category |-> or(get(entry, "businessCategoryName"), "''"),
   bio |-> replace_newlines(or(get(entry, "biography"), "''")),
   post_count |-> get_default(entry, "postsCount", "0"),
   profile_pic_url |-> or(get(entry, "profilePicUrlHD"),
                          get_default(entry, "profilePicUrl", "''"))]

\* The rows convert_apify_to_csv writes: an entry whose username is absent,
\* null or empty is skipped.
RECURSIVE convert_rows(_)
convert_rows(apify_data) ==
  IF apify_data = <<>> THEN <<>>
  ELSE LET entry == Head(apify_data)
       IN  IF ~Truthy(get_default(entry, "username", "''"))
             THEN convert_rows(Tail(apify_data))
             ELSE <<convert_row(entry)>> \o convert_rows(Tail(apify_data))

\* What neither normalizer changes.
notNorm == <<cmd, batch_size, all_usernames, post_urls, raw_file,
             comments_file, remaining, existing, i, batch, runs, exit,
             store0, durable, submitted, fetched, failed, apiVars,
             enrichVars, sfVars, lines, raw_rows, persisted>>

\* cmd_analyze, lines 223-290: the followers file is normalized into the
\* rows of the data frame.
CmdAnalyze ==
  /\ cmd = "analyze" /\ pc = "idle"
  /\ table' = analyze_rows(raw_rows)
  /\ pc' = "done"
  /\ UNCHANGED notNorm

\* convert_apify_to_csv, lines 170-206: the rows of the profiles CSV.
ConvertApifyToCsv ==
  /\ cmd = "convert_rows" /\ pc = "idle"
  /\ table' = convert_rows(raw_rows)
  /\ pc' = "done"
  /\ UNCHANGED notNorm

\* The raw follower records of the model: every combination of absent, null,
\* empty and present values of the aliases of three canonical fields.
AnalyzeRecords ==
  {RawRecord(AnalyzeKeys, g) :
     g \in [username : {"absent", "None", "''", "'bob'"},
            userName : {"absent", "'amy'"},
            followerCount : {"absent", "None", "0", "12"},
            followers : {"absent", "7"},
            isVerified : {"absent", "None"} \cup BooleanLike,
            is_verified : {"absent", "True"},
            biography : {"absent", "None", "'a<LF>b'"}]}

\* The raw profile records of the model.
ConvertRecords ==
  {RawRecord(ConvertKeys, g) :
     g \in [username : {"absent", "None", "''", "'bob'"},
            fullName : {"absent", "None", "'Bob'"},
            followersCount : {"absent", "None", "0", "12"},
            verified : {"absent", "None"} \cup BooleanLike,
            biography : {"absent", "None", "'a<LF>b'"}]}

\* Raw records that differ in their username only.
NamedRecords(keys) ==
  {RawRecord(keys, g) : g \in [username : {"absent", "'bob'", "'amy'"}]}

InitNormalize ==
  /\ cmd \in {"analyze", "convert_rows"}
  /\ raw_rows \in
       IF cmd = "analyze"
         THEN {<<r>> : r \in AnalyzeRecords}
                \cup SeqsUpTo(NamedRecords(AnalyzeKeys), MaxRows)
         ELSE {<<r>> : r \in ConvertRecords}
                \cup SeqsUpTo(NamedRecords(ConvertKeys), MaxRows)
  /\ table = <<>>
  /\ persisted = {}
  /\ batch_size = 1
  /\ all_usernames = <<>>
  /\ post_urls = <<>>
  /\ raw_file = NoFile
  /\ comments_file = NoFile
  /\ pc = "idle"
  /\ remaining = <<>>
  /\ existing = <<>>
  /\ i = 0
  /\ batch = <<>>
  /\ runs = 0
  /\ exit = "none"
  /\ store0 = NoFile
  /\ durable = <<>>
  /\ submitted = <<>>
  /\ fetched = <<>>
  /\ failed = 0
  /\ followers_file = NoFile
  /\ collected = <<>>
  /\ max_id = 0
  /\ page = 0
  /\ attempt = 0
  /\ caller = ""
  /\ api_result = ""
  /\ waits = <<>>
  /\ requested = <<>>
  /\ exhausted = FALSE
  /\ followers = <<>>
  /\ profiles_file = NoFile
  /\ processed = 0
  /\ errors = 0
  /\ answers = <<>>
  /\ asked = <<>>
  /\ gap = <<>>
  /\ prev_gap = <<>>
  /\ unauthorized = FALSE
  /\ outcomes = <<>>
  /\ SfInit
  /\ lines = <<>>

NextNormalize ==
  \/ CmdAnalyze
  \/ ConvertApifyToCsv

SpecNormalize == InitNormalize /\ [][NextNormalize]_vars

\* The canonical fields that hold a number, and those that hold a string.
NumericFields == {"follower_count", "following_count", "post_count"}
StringFields == {"handle", "ig_user_id", "full_name", "bio",
                 "profile_pic_url"}

\* C21 (normalization is total): a finished normalizer has produced one
\* record for every raw record, and in it no canonical field is null: a
\* numeric field whose source is missing or null is 0 and a string field
\* whose source is missing or null is the empty string.
C21_NormalizationTotal ==
  pc = "done" /\ cmd \in {"analyze", "convert_rows"} =>
    /\ Len(table) = Len(raw_rows)
    /\ \A k \in DOMAIN table :
         \A f \in NumericFields \cup StringFields : table[k][f] # "None"

\* A value that is present: neither absent, nor null, nor empty.
NonEmpty(v) == v \notin {"absent", "None", "''"}

\* The value of the first key of `aliases` that f_data holds a present value
\* for, and `default` when there is none.
RECURSIVE FirstAlias(_, _, _)
FirstAlias(f_data, aliases, default) ==
  IF aliases = <<>> THEN default
  ELSE IF NonEmpty(f_data[Head(aliases)]) THEN f_data[Head(aliases)]
  ELSE FirstAlias(f_data, Tail(aliases), default)

\* The canonical boolean of a boolean-like source value.
Coerced(v) == IF v \in {"1", "'true'", "True"} THEN "True" ELSE "False"

\* C22 (alias precedence): in the rows of cmd_analyze every canonical field
\* holds the value of the first alias, in the order of the code, that is
\* present in the raw record; a later alias never overrides it.
C22_AliasPrecedence ==
  pc = "done" /\ cmd = "analyze" =>
    \A k \in DOMAIN table :
      /\ table[k].handle =
           FirstAlias(raw_rows[k], <<"username", "userName", "handle">>, "''")
      /\ table[k].follower_count =
           FirstAlias(raw_rows[k],
                      <<"followerCount", "followers", "follower_count">>, "0")
      /\ table[k].following_count =
           FirstAlias(raw_rows[k],
                      <<"followingCount", "following", "following_count">>,
                      "0")
      /\ Coerced(table[k].is_verified) =
           Coerced(FirstAlias(raw_rows[k], <<"isVerified", "is_verified">>,
                              "False"))

\* C23 (boolean coercion): a boolean-like or absent source value becomes the
\* canonical boolean, true exactly for 1, "true" and true.
C23_BooleanCoercion ==
  pc = "done" =>
    /\ cmd = "analyze" =>
         \A k \in DOMAIN table :
           /\ raw_rows[k]["isVerified"] \in BooleanLike \cup {"absent"}
           /\ raw_rows[k]["is_verified"] = "absent"
           => table[k].is_verified = Coerced(raw_rows[k]["isVerified"])
    /\ cmd = "convert_rows" /\ Len(table) = Len(raw_rows) =>
         \A k \in DOMAIN table :
           raw_rows[k]["verified"] \in BooleanLike \cup {"absent"}
           => table[k].is_verified = Coerced(raw_rows[k]["verified"])

\* C24 (one row per handle): the normalized table holds exactly one row for
\* every distinct non-empty handle of the raw records.
C24_OneRowPerHandle ==
  pc = "done" /\ cmd \in {"analyze", "convert_rows"} =>
    /\ \A j, k \in DOMAIN table :
         table[j].handle = table[k].handle => j = k
    /\ \A k \in DOMAIN raw_rows :
         NonEmpty(raw_rows[k]["username"]) =>
           \E j \in DOMAIN table : table[j].handle = raw_rows[k]["username"]

\* C29 (convert finds the raw store): whenever cmd_scrape is about to call
\* convert_apify_to_csv, the raw result file exists.
C29_ConvertFindsRawStore ==
  cmd = "scrape" /\ pc = "convert" => raw_file.exists

\* The usernames a followers file holds.
Loaded(file) == IF file.exists THEN Range(file.data) ELSE {}

\* C26 (followers file holds the collected set): when
\* scrape_followers.cmd_followers has returned, the followers file is the
\* sorted collected set, and that set contains every username the file held
\* when the invocation started.
C26_FollowersFileHoldsCollected ==
  cmd = "sf_followers" /\ pc = "done" /\ exit = "ok" =>
    /\ sf_file = FileOf(sorted(sf_collected))
    /\ Loaded(store0) \subseteq sf_collected

\* C26 witness: a second invocation was interrupted after it had collected
\* a username more than the file held at its start.
C26_Witness ==
  /\ cmd = "sf_followers" /\ pc = "done" /\ exit = "ok"
  /\ runs = 2
  /\ iter_pos < Len(TargetFollowers) /\ attempt < sf_max_retries - 1
  /\ Loaded(store0) # {}
  /\ Loaded(store0) # sf_collected
  /\ Loaded(sf_file) = sf_collected

\* The loops that add rows to a profiles file.
AllEnrichCmds == EnrichCmds \cup {"sf_enrich"}

\* The work list of the running (or last) enrichment invocation: the
\* followers whose resume key was not in the store at its start.
EnrichWorkList ==
  Remaining(IF cmd = "sf_enrich" THEN sf_file.data ELSE followers,
            enriched_ids(store0))

\* The row an enrichment loop writes for the unit u.
RowOf(u) ==
  [handle |-> IF cmd = "sf_enrich" THEN u ELSE RowHandle(u), of |-> u]

\* The rows of the first n units asked for, those that ended in a row.
RECURSIVE EnrichedRows(_)
EnrichedRows(n) ==
  IF n = 0 THEN <<>>
  ELSE EnrichedRows(n - 1)
         \o (IF outcomes[n] = "row" THEN <<RowOf(asked[n])>> ELSE <<>>)

\* C27 (enrichment resume frame): when an enrichment invocation has run to
\* its end, its store holds the rows it started on, in their order, followed
\* by one row for every unit enriched in it, and the units were asked for in
\* work-list order.
C27_ResumeKeepsRows ==
  cmd \in AllEnrichCmds /\ pc = "done" /\ exit = "ok" /\ runs > 0 =>
    /\ asked = SubSeq(EnrichWorkList, 1, Len(asked))
    /\ profiles_file.data = store0.data \o EnrichedRows(Len(outcomes))

\* C27 witness: an invocation that started on a store with a row has ended
\* after adding a row to it.
C27_Witness ==
  /\ cmd \in AllEnrichCmds /\ pc = "done" /\ exit = "ok"
  /\ store0.data # <<>>
  /\ Len(profiles_file.data) > Len(store0.data)
  /\ profiles_file.data = store0.data \o EnrichedRows(Len(outcomes))

\* C30 (the 429 handler of the enrichment loops is dead): api_get never
\* raises the HTTPError of a 429 to cmd_enrich, so no unit of export_scraper
\* or ig_api_scraper ends in the 15-minute back-off or the stop-and-resume
\* branch.
C30_RateLimitBranchUnreachable ==
  cmd \in EnrichCmds =>
    /\ api_result # "raised_429"
    /\ \A k \in DOMAIN outcomes : outcomes[k] # "backoff"
    /\ \A k \in DOMAIN gap : gap[k] # 900

\* C30 witness: every attempt of an api_get call was answered 429, and the
\* call has returned {} to the loop.
C30_Witness ==
  /\ cmd \in EnrichCmds /\ pc = "xret"
  /\ api_result = "empty"
  /\ Len(answers) = max_retries
  /\ \A k \in DOMAIN answers : answers[k] = "429"

\* ---------------------------------------------------------------------
\* apify_to_report.convert_apify_to_csv and the store of
\* export_scraper.cmd_enrich: both are data/<target>_profiles_export.csv.

\* The rows convert_apify_to_csv writes for the raw records `apify_data`:
\* "handle" is the record's username, and a record without one is skipped.
RECURSIVE ConvertedRows(_)
ConvertedRows(apify_data) ==
  IF apify_data = <<>> THEN <<>>
  ELSE LET entry == Head(apify_data)
       IN  (IF entry.username = 0 THEN <<>>
            ELSE <<[handle |-> entry.username, of |-> entry.of]>>)
             \o ConvertedRows(Tail(apify_data))

\* The raw files apify_to_report is run on: what the profile actor returned
\* for a profile that is no follower of the model, and for one without a
\* username.
ConvertInputs == {Items(units) : units \in SeqsUpTo({4, 5}, 1)}

\* apify_to_report convert (lines 212-216, 140-206), or the convert step of
\* apify_to_report scrape (line 133), run between two invocations of
\* export_scraper enrich: the profiles file is opened with "w" and one row
\* is written per raw record with a username.  (Without the input file the
\* command raises before it opens the profiles file.)
CmdConvert ==
  /\ cmd = "enrich" /\ Idle
  /\ \E apify_data \in ConvertInputs :
       profiles_file' = FileOf(ConvertedRows(apify_data))
  /\ pc' = "idle"
  /\ UNCHANGED <<cmd, scrapeVars, apiVars, sfVars, followers, processed,
                 errors, answers, asked, gap, prev_gap, unauthorized,
                 outcomes, remaining, existing, i, runs, exit>>

NextStores == NextEnrich \/ CmdConvert

SpecStores == InitEnrich /\ [][NextStores]_vars

\* C25 (only the collector writes its store): every row that
\* export_scraper.cmd_enrich has appended to the profiles file is in the
\* file, whatever other command has run since.
C25_EnrichRowsAreKept ==
  cmd = "enrich" => persisted \subseteq Range(profiles_file.data)

\* ---------------------------------------------------------------------
\* The collectors that resume on a store: cmd_scrape and the three
\* enrichment loops, in invocations that are not killed.

\* cmd_scrape runs with the largest batch size.
InitRuns ==
  \/ Init /\ cmd = "scrape" /\ batch_size = MaxBatch
  \/ InitEnrich
  \/ InitIgEnrich
  \/ InitSfEnrich

NextRuns ==
  \/ ScrapeStart
  \/ ScrapeSubmit
  \/ ScrapeLoopEnd
  \/ ScrapeCallReturns
  \/ ScrapeCallRaises
  \/ ScrapeOpen
  \/ ScrapeDump
  \/ ScrapeConvert
  \/ NextEnrich
  \/ NextSfEnrich

SpecRuns == InitRuns /\ [][NextRuns]_vars

\* C28 (nothing remaining, nothing done): an invocation that finds every
\* work unit in its store asks the backend for nothing and leaves the store
\* file as it found it.
C28_NothingRemainingIsNoOp ==
  runs > 0 =>
    /\ cmd \in AllEnrichCmds /\ EnrichWorkList = <<>> =>
         asked = <<>> /\ profiles_file = store0
    /\ /\ cmd = "scrape"
       /\ ~(store0.exists /\ ~store0.valid)
       /\ Remaining(all_usernames, load_already_scraped(store0)) = <<>>
       => submitted = <<>> /\ raw_file = store0

\* C28 witness: a second invocation of an enrichment loop found every
\* follower in the store the first one had filled, and has returned.
C28_Witness ==
  /\ cmd \in AllEnrichCmds /\ runs = 2 /\ pc = "done" /\ exit = "ok"
  /\ store0.data # <<>>
  /\ EnrichWorkList = <<>>
  /\ asked = <<>> /\ profiles_file = store0
====
